---- MODULE Spec2Model ----
(***************************************************************************)
(* State-machine model of the server-side-rendered site: the dispatcher    *)
(* (server.js), the layout (pages/app.js), the page handlers (index,       *)
(* login, register, profile, logout), the credential store (database.js)   *)
(* and the in-memory session registry (global.sessions).                   *)
(*                                                                         *)
(* The repository holds two revisions of the dispatcher, the layout and    *)
(* the profile page.  The variable `build` says which one is deployed:     *)
(*   "allowlist": server.js:8-50, the escaping layout and profile page     *)
(*   "dynamic"  : server.js:60-86, pages/app.js and pages/profile.js       *)
(*                                                                         *)
(* JavaScript strings are sequences of one-character strings, so that      *)
(* startsWith, slice and replace are computed and not assumed.  A          *)
(* JavaScript value is a record [t |-> type, v |-> characters].            *)
(***************************************************************************)
EXTENDS Naturals, Sequences, FiniteSets, TLC

VARIABLES
  build,      \* the revision deployed
  sessions,   \* global.sessions: token -> user name
  users,      \* the rows of the table users
  issued,     \* the tokens crypto.randomBytes has returned
  registered, \* history: the <<name, password>> pairs a registration succeeded for
  req,        \* the request on each connection
  running     \* the connection whose response was just written, 0 if none

vars == <<build, sessions, users, issued, registered, req, running>>

(***************************************************************************)
(* Bounds of the model.                                                    *)
(***************************************************************************)
\* number of session tokens crypto.randomBytes hands out in one behaviour
MaxTokens == 2

\* the connections: two requests can be in flight at the same time
ReqIds == {1, 2}

(***************************************************************************)
(* JavaScript values.                                                      *)
(***************************************************************************)
Str(s) == [t |-> "string", v |-> s]
Null == [t |-> "null", v |-> <<>>]
Undefined == [t |-> "undefined", v |-> <<>>]
\* Object.prototype.constructor, the function Object; v is String(Object)
ObjectFunction == [t |-> "function", v |-> <<"function Object() { [native code] }">>]

\* the truthiness test of `if (!user)`, `user ? a : b`, `user && ...`
Truthy(x) == \/ x.t = "function"
             \/ x.t = "string" /\ x.v # <<>>

\* String(x), also the conversion a template literal `${x}` applies
String(x) ==
  CASE x.t = "string" -> x.v
    [] x.t = "null" -> <<"n", "u", "l", "l">>
    [] x.t = "undefined" -> <<"u", "n", "d", "e", "f", "i", "n", "e", "d">>
    [] OTHER -> x.v

(***************************************************************************)
(* utils.js: escapeHtml.                                                   *)
(***************************************************************************)
\* String.prototype.replace(/ch/g, rep) on a sequence of characters
RECURSIVE replace(_, _, _)
replace(s, ch, rep) ==
  IF s = <<>> THEN <<>>
  ELSE (IF Head(s) = ch THEN rep ELSE <<Head(s)>>) \o replace(Tail(s), ch, rep)

\* the five replacements in the order of the source: each one works on the
\* result of the one before it
escapeHtml(unsafe) ==
  IF unsafe.t # "string"
  THEN (IF unsafe.t \in {"null", "undefined"} THEN <<>> ELSE String(unsafe))
  ELSE CHOOSE e \in
         { replace(d, "'", <<"&", "#", "0", "3", "9", ";">>) : d \in
         { replace(c, "\"", <<"&", "q", "u", "o", "t", ";">>) : c \in
         { replace(b, ">", <<"&", "g", "t", ";">>) : b \in
         { replace(a, "<", <<"&", "l", "t", ";">>) : a \in
         { replace(unsafe.v, "&", <<"&", "a", "m", "p", ";">>) } } } } } : TRUE

(***************************************************************************)
(* The session registry: global.sessions = {} (server.js:6), a plain       *)
(* object.  A read of a key that is no own property falls through to       *)
(* Object.prototype; "constructor" stands for the inherited keys.          *)
(***************************************************************************)
Token(i) == "token" \o ToString(i)
Tokens == {Token(i) : i \in 1..MaxTokens}

ObjectPrototypeKeys == {"constructor"}

\* cookies.session when the request has no session cookie: undefined, which
\* a property access turns into the key "undefined"
NoCookie == "undefined"

\* global.sessions?.[key]
sessionsGet(s, key) ==
  IF key \in DOMAIN s THEN s[key]
  ELSE IF key \in ObjectPrototypeKeys THEN ObjectFunction
  ELSE Undefined

\* global.sessions[token] = name
sessionsSet(s, token, name) ==
  [k \in DOMAIN s \cup {token} |-> IF k = token THEN name ELSE s[k]]

\* mutant: logout removes every session of the user the token belongs to
sessionsDeleteUser(s, token) ==
  [k \in {t \in DOMAIN s : token \notin DOMAIN s \/ s[t] # s[token]} |-> s[k]]

\* delete global.sessions?.[token]
sessionsDelete(s, token) == [k \in DOMAIN s \ {token} |-> s[k]]

\* crypto.randomBytes(32).toString("hex"): 256 random bits, modelled as a
\* value that was not drawn before
randomBytes(drawn) == Token(Cardinality(drawn) + 1)

(***************************************************************************)
(* bcrypt.  A hash records the plaintext it was derived from; the salt is  *)
(* left out, compare recomputes the hash from the plaintext.  A null       *)
(* plaintext makes both operations reject ("data and salt arguments        *)
(* required").                                                             *)
(***************************************************************************)
bcryptRejects(pass) == pass.t # "string"

bcryptHash(pass) == [t |-> "hash", v |-> pass.v]

\* mutant: every password verifies
bcryptCompareAny(pass, hash) == TRUE

bcryptCompare(pass, hash) == bcryptHash(pass) = hash

(***************************************************************************)
(* database.js over the table users (name TEXT PRIMARY KEY, password TEXT).*)
(* The table is a set of rows.  A NULL name never equals anything in SQL:  *)
(* it is never found and never violates the primary key.                   *)
(***************************************************************************)
NoRow == [found |-> FALSE, password |-> [t |-> "hash", v |-> <<>>]]

\* SELECT * FROM users WHERE name = ?
getUserByName(table, name) ==
  IF name.t = "string" /\ \E row \in table : row.name = name
  THEN LET row == CHOOSE row \in table : row.name = name
       IN [found |-> TRUE, password |-> row.password]
  ELSE NoRow

\* mutant: the primary key never rejects an INSERT
nameTakenNever(table, name) == FALSE

\* does INSERT INTO users (name, password) VALUES (?, ?) hit SQLITE_CONSTRAINT
nameTaken(table, name) == name.t = "string" /\ \E row \in table : row.name = name

\* mutant: the INSERT stores no hash
insertUserNoHash(table, name, hash) == table \cup {[name |-> name, password |-> NoRow.password]}

\* the table after a successful INSERT
insertUser(table, name, hash) == table \cup {[name |-> name, password |-> hash]}

(***************************************************************************)
(* HTML fragments.  A fragment is its template (kind) and the text the     *)
(* template embeds.                                                        *)
(***************************************************************************)
Html(kind) == [kind |-> kind, text |-> <<>>]
NoHtml == Html("none")

NoSetCookie == [kind |-> "none", token |-> ""]
\* `session=${token}; HttpOnly; Path=/`
SessionCookie(token) == [kind |-> "session; HttpOnly; Path=/", token |-> token]
\* `session=; Max-Age=0; Path=/; HttpOnly`
ClearCookie == [kind |-> "session=; Max-Age=0; Path=/; HttpOnly", token |-> ""]

(***************************************************************************)
(* The layout: wrap(body, meta, req).                                      *)
(***************************************************************************)
\* mutant: the layout tests the looked-up name for presence, not truthiness
wrapUnescapedPresent(body, title, cookie, s) ==
  LET user == sessionsGet(s, cookie)
      authLinks == IF user # Undefined
                   THEN [kind |-> "Logged in as", text |-> String(user)]
                   ELSE Html("Login | Register")
  IN [title |-> title, nav |-> authLinks, body |-> body]

\* pages/app.js as documented in the README: the user name is embedded as is
wrapUnescaped(body, title, cookie, s) ==
  LET user == sessionsGet(s, cookie)
      authLinks == IF Truthy(user)
                   THEN [kind |-> "Logged in as", text |-> String(user)]
                   ELSE Html("Login | Register")
  IN [title |-> title, nav |-> authLinks, body |-> body]

\* the layout that escapes the user name and the title
wrap(body, title, cookie, s) ==
  LET user == sessionsGet(s, cookie)
      safeUserDisplay == IF Truthy(user) THEN escapeHtml(user) ELSE <<>>
      authLinks == IF Truthy(user)
                   THEN [kind |-> "Logged in as", text |-> safeUserDisplay]
                   ELSE Html("Login | Register")
  IN [title |-> escapeHtml(Str(title)), nav |-> authLinks, body |-> body]

(***************************************************************************)
(* The profile page.                                                       *)
(***************************************************************************)
\* pages/profile.js as documented in the README
profileRenderUnescaped(cookie, s) ==
  LET user == sessionsGet(s, cookie)
  IN IF ~Truthy(user) THEN Html("Please log in")
     ELSE [kind |-> "Welcome", text |-> String(user)]

\* the profile page that escapes the user name
profileRender(cookie, s) ==
  LET user == sessionsGet(s, cookie)
  IN IF ~Truthy(user) THEN Html("Please log in")
     ELSE [kind |-> "Welcome", text |-> escapeHtml(user)]

(***************************************************************************)
(* Paths, as URL.pathname gives them.                                      *)
(***************************************************************************)
Root == <<"/">>
Login == <<"/", "l", "o", "g", "i", "n">>
Register == <<"/", "r", "e", "g", "i", "s", "t", "e", "r">>
Profile == <<"/", "p", "r", "o", "f", "i", "l", "e">>
Logout == <<"/", "l", "o", "g", "o", "u", "t">>
Public == <<"/", "p", "u", "b", "l", "i", "c", "/">>

\* the paths requests are drawn from: the five routes, two that name other
\* modules of pages/ ("/app", "/index"), a variant of a route ("/login/"),
\* an unknown one ("/x"), and a present and a missing static file
Paths ==
  { Root, Login, Register, Profile, Logout,
    <<"/", "a", "p", "p">>,
    <<"/", "i", "n", "d", "e", "x">>,
    Login \o <<"/">>,
    <<"/", "x">>,
    Public \o <<"s", "t", "y", "l", "e", ".", "c", "s", "s">>,
    Public \o <<"x">> }

\* the request lines requests are drawn from: GET of every path, and POST of
\* the two pages that read a body and of one that does not
RequestLines ==
  ({"GET"} \X Paths) \cup ({"POST"} \X {Login, Register, Profile})

\* the session cookie values a request can carry: none, a token the server
\* has handed out (live or logged out), or a string of the client's choice
\* that is no token; a client cannot name a token not yet drawn
Cookies(drawn) == {NoCookie} \cup drawn \cup ObjectPrototypeKeys

\* the url-encoded bodies requests are drawn from, as the pair
\* <<params.get("name"), params.get("password")>>; a field the body lacks is
\* null.  The names are one made of the five HTML metacharacters and a
\* letter, and the empty name.
Names == {Str(<<"<", "&", ">", "\"", "'", "b">>), Str(<<>>)}

Bodies ==
  (Names \X {Str(<<"p">>), Str(<<"q">>), Null})
    \cup {<<Null, Str(<<"p">>)>>, <<Null, Null>>}

\* String.prototype.startsWith
startsWith(s, prefix) ==
  Len(s) >= Len(prefix) /\ SubSeq(s, 1, Len(prefix)) = prefix

\* String.prototype.slice(1)
slice1(s) == Tail(s)

\* fs.existsSync(path.join(__dirname, pathname)): the files of public/
existsSync(pathname) ==
  pathname = Public \o <<"s", "t", "y", "l", "e", ".", "c", "s", "s">>

\* path.extname(file): the suffix from the last "." of the path, "" if none
extname(pathname) ==
  LET dots == {i \in 1..Len(pathname) : pathname[i] = "."}
  IN IF dots = {} THEN <<>>
     ELSE SubSeq(pathname, CHOOSE i \in dots : \A k \in dots : k <= i, Len(pathname))

\* the content type the earlier static branch derived from the extension:
\* { '.css': 'text/css', '.js': 'application/javascript' }[ext] || 'text/plain'
contentTypeOf(pathname) ==
  CASE extname(pathname) = <<".", "c", "s", "s">> -> "text/css"
    [] extname(pathname) = <<".", "j", "s">> -> "application/javascript"
    [] OTHER -> "text/plain"

\* the modules of pages/ (README, project structure) and the one of them
\* that exports no render function, the layout
PagesDir ==
  { <<"i", "n", "d", "e", "x">>, slice1(Login), slice1(Register),
    slice1(Profile), slice1(Logout), <<"a", "p", "p">> }

NoModule == <<>>

\* server.js:24-33: the module allowedPageModules names for pathname
allowedPageModules(pathname) ==
  CASE pathname = Root -> <<"i", "n", "d", "e", "x">>
    [] pathname = Login -> slice1(Login)
    [] pathname = Register -> slice1(Register)
    [] pathname = Profile -> slice1(Profile)
    [] pathname = Logout -> slice1(Logout)
    [] OTHER -> NoModule

\* server.js:75-77: the module require(`./pages/${route}.js`) loads, none
\* when require throws
dynamicRequire(pathname) ==
  LET route == IF pathname = Root THEN <<"i", "n", "d", "e", "x">> ELSE slice1(pathname)
  IN IF route \in PagesDir THEN route ELSE NoModule

\* the page module the dispatcher of build b loads for pathname
resolve(b, pathname) ==
  IF b = "allowlist" THEN allowedPageModules(pathname) ELSE dynamicRequire(pathname)

\* typeof page.render === "function"
hasRender(module) == module \in PagesDir \ {<<"a", "p", "p">>}

\* exports.meta.title of a page module
metaTitle(module) ==
  CASE module = <<"i", "n", "d", "e", "x">> -> <<"H", "o", "m", "e">>
    [] module = slice1(Login) -> <<"L", "o", "g", "i", "n">>
    [] module = slice1(Register) -> <<"R", "e", "g", "i", "s", "t", "e", "r">>
    [] module = slice1(Profile) -> <<"P", "r", "o", "f", "i", "l", "e">>
    [] module = slice1(Logout) -> <<"L", "o", "g", "o", "u", "t">>
    [] OTHER -> <<"U", "n", "t", "i", "t", "l", "e", "d">>

(***************************************************************************)
(* Page handlers that complete without suspending.  A render yields the    *)
(* body it returns, the Set-Cookie header it sets and the registry it      *)
(* leaves.                                                                 *)
(***************************************************************************)
Rendered(body, setCookie, s) == [body |-> body, setCookie |-> setCookie, sessions |-> s]

\* pages/index.js (README): static welcome content
indexRender(s) == Rendered(Html("Welcome to the Home Page"), NoSetCookie, s)

\* pages/login.js:31-37 and pages/register.js:35-41: the forms
formRender(module, s) ==
  Rendered(Html(IF module = slice1(Login) THEN "Login form" ELSE "Register form"),
           NoSetCookie, s)

\* mutant: logout refuses a cookie that names no session
logoutRenderStrict(cookie, s) ==
  IF cookie \in DOMAIN s
  THEN Rendered(Html("You have been logged out"), ClearCookie, sessionsDelete(s, cookie))
  ELSE Rendered(Html("Not logged in"), NoSetCookie, s)

\* pages/logout.js
logoutRender(cookie, s) ==
  Rendered(Html("You have been logged out"), ClearCookie, sessionsDelete(s, cookie))

\* mutant: the profile page carries the logout page's delete
pageRenderProfileDeleting(b, module, cookie, s) ==
  CASE module = <<"i", "n", "d", "e", "x">> -> indexRender(s)
    [] module = slice1(Profile) ->
         Rendered(IF b = "allowlist" THEN profileRender(cookie, s)
                  ELSE profileRenderUnescaped(cookie, s), NoSetCookie,
                  sessionsDelete(s, cookie))
    [] module = slice1(Logout) -> logoutRender(cookie, s)
    [] OTHER -> formRender(module, s)

\* page.render(parsed.query, req, res) of a module that does not read a body
pageRender(b, module, cookie, s) ==
  CASE module = <<"i", "n", "d", "e", "x">> -> indexRender(s)
    [] module = slice1(Profile) ->
         Rendered(IF b = "allowlist" THEN profileRender(cookie, s)
                  ELSE profileRenderUnescaped(cookie, s), NoSetCookie, s)
    [] module = slice1(Logout) -> logoutRender(cookie, s)
    [] OTHER -> formRender(module, s)

\* does render of this module wait for the request body
readsBody(module, method) ==
  module \in {slice1(Login), slice1(Register)} /\ method = "POST"

(***************************************************************************)
(* Requests in flight.  An action is one callback of the event loop        *)
(* together with the promise continuations it queues, which run before any *)
(* other callback.  pc is the point a request waits at between callbacks:  *)
(*   idle      no request on this connection                               *)
(*   body      login/register: waiting for the body's "end" event          *)
(*   login_db  waiting for getUserByName                                   *)
(*   login_cmp waiting for bcrypt.compare                                  *)
(*   reg_hash  waiting for bcrypt.hash                                     *)
(*   reg_db    waiting for createUser                                      *)
(*   sent      the response is written                                     *)
(*   hung      the "end" callback rejected: render's promise never settles *)
(*             and nothing is written                                      *)
(* err is the error the last callback met ("db", "bcrypt"), if any.        *)
(* sessions0 and users0 are history: the registry and the table as they    *)
(* were when the callback that wrote the response started.                 *)
(***************************************************************************)
Idle ==
  [ pc |-> "idle", method |-> "", path |-> <<>>, module |-> NoModule,
    cookie |-> NoCookie, name |-> Null, pass |-> Null,
    user |-> NoRow, hash |-> NoRow.password,
    status |-> 0, contentType |-> "", setCookie |-> NoSetCookie,
    title |-> <<>>, nav |-> NoHtml, body |-> NoHtml,
    err |-> "", sessions0 |-> <<>>, users0 |-> {} ]

\* requests that may still draw a token
Drawing == {r \in ReqIds : req[r].pc \in {"body", "login_db", "login_cmp", "reg_hash", "reg_db"}}

Init ==
  /\ build \in {"allowlist", "dynamic"}
  /\ sessions = <<>>
  /\ users = {}
  /\ issued = {}
  /\ registered = {}
  /\ req = [r \in ReqIds |-> Idle]
  /\ running = 0

\* res.writeHead(status); res.end(text): a response without the layout
Plain(q, status, text) ==
  [q EXCEPT !.pc = "sent", !.status = status, !.body = Html(text)]

\* the request with the history of the callback that is about to answer it
Snap(q) == [q EXCEPT !.sessions0 = sessions, !.users0 = users]

\* mutant: the layout is computed before the handler ran
respondWrapFirst(b, q, out) ==
  LET wrapped == IF b = "allowlist"
                 THEN wrap(out.body, metaTitle(q.module), q.cookie, q.sessions0)
                 ELSE wrapUnescaped(out.body, metaTitle(q.module), q.cookie, q.sessions0)
  IN [q EXCEPT !.pc = "sent", !.status = 200, !.contentType = "text/html",
               !.setCookie = out.setCookie,
               !.title = wrapped.title, !.nav = wrapped.nav, !.body = wrapped.body]

\* server.js:42-44, the continuation of `await page.render(...)`:
\* app.wrap(html, page.meta, req), writeHead(200, text/html), end(wrapped).
\* out is what render produced, out.sessions the registry it left.
respond(b, q, out) ==
  LET wrapped == IF b = "allowlist"
                 THEN wrap(out.body, metaTitle(q.module), q.cookie, out.sessions)
                 ELSE wrapUnescaped(out.body, metaTitle(q.module), q.cookie, out.sessions)
  IN [q EXCEPT !.pc = "sent", !.status = 200, !.contentType = "text/html",
               !.setCookie = out.setCookie,
               !.title = wrapped.title, !.nav = wrapped.nav, !.body = wrapped.body]

\* the "end" callback's promise rejects: nothing awaits it, render's promise
\* stays pending and the request gets no response
Hung(q, err) ==
  [Idle EXCEPT !.pc = "hung", !.method = q.method, !.path = q.path, !.err = err]

(***************************************************************************)
(* server.js: the request handler.  A page that does not read a body is    *)
(* rendered, wrapped and sent in this callback; login and register on POST *)
(* return a pending promise and wait for the body.                         *)
(***************************************************************************)
Request(r) ==
  /\ running = 0
  /\ req[r].pc = "idle"
  /\ \E line \in RequestLines, cookie \in Cookies(issued) :
       LET method == line[1]
           pathname == line[2]
           module == resolve(build, pathname)
           q == Snap([Idle EXCEPT !.method = method, !.path = pathname, !.cookie = cookie])
       IN IF startsWith(pathname, Public)
          THEN /\ req' = [req EXCEPT ![r] =
                            IF existsSync(pathname) THEN Plain(q, 200, "file")
                            ELSE Plain(q, 404, "Not found")]
               /\ running' = r
               /\ UNCHANGED sessions
          ELSE IF module = NoModule \/ ~hasRender(module)
          THEN /\ req' = [req EXCEPT ![r] = Plain(q, 404, "Page not found")]
               /\ running' = r
               /\ UNCHANGED sessions
          ELSE IF readsBody(module, method)
          THEN /\ Cardinality(issued) + Cardinality(Drawing) < MaxTokens
               /\ req' = [req EXCEPT ![r] =
                            [Idle EXCEPT !.pc = "body", !.method = method, !.path = pathname,
                                         !.cookie = cookie, !.module = module]]
               /\ running' = 0
               /\ UNCHANGED sessions
          ELSE LET out == pageRender(build, module, cookie, sessions)
               IN /\ req' = [req EXCEPT ![r] = respond(build, [q EXCEPT !.module = module], out)]
                  /\ sessions' = out.sessions
                  /\ running' = r
  /\ UNCHANGED <<build, users, issued, registered>>

(***************************************************************************)
(* Session creation, as login.js:19-23 and register.js:20-23 do it: draw a *)
(* token, bind it to the name, set the cookie, resolve with the message.   *)
(***************************************************************************)
\* mutant: the new entry is written into a copy of the registry taken before
\* the handler suspended, which here is the empty registry of the start
createSessionOnCopy(name, s, drawn, message) ==
  LET token == randomBytes(drawn)
  IN [ body |-> Html(message), setCookie |-> SessionCookie(token),
       sessions |-> sessionsSet(<<>>, token, name), issued |-> drawn \cup {token} ]

\* mutant: the token is a counter of the live sessions, not a fresh draw
createSessionByCount(name, s, drawn, message) ==
  LET token == Token(Cardinality(DOMAIN s) + 1)
  IN [ body |-> Html(message), setCookie |-> SessionCookie(token),
       sessions |-> sessionsSet(s, token, name), issued |-> drawn \cup {token} ]

createSession(name, s, drawn, message) ==
  LET token == randomBytes(drawn)
  IN [ body |-> Html(message), setCookie |-> SessionCookie(token),
       sessions |-> sessionsSet(s, token, name), issued |-> drawn \cup {token} ]

\* mutant: the message tells an unknown name from a wrong password
loginFailedTelling(user, s) ==
  Rendered(Html(IF user.found THEN "Wrong password" ELSE "Unknown user"), NoSetCookie, s)

\* the else branch of login.js:18-26, taken for an absent user and for a
\* password that does not verify
loginFailed(user, s) == Rendered(Html("Login failed"), NoSetCookie, s)

(***************************************************************************)
(* pages/login.js, POST.                                                   *)
(***************************************************************************)
\* the "end" callback up to `await getUserByName(name)`
LoginEnd(r) ==
  /\ running = 0
  /\ req[r].pc = "body"
  /\ req[r].module = slice1(Login)
  /\ \E params \in Bodies :
       req' = [req EXCEPT ![r] =
                 [@ EXCEPT !.pc = "login_db", !.name = params[1], !.pass = params[2]]]
  /\ UNCHANGED <<build, sessions, users, issued, registered, running>>

\* getUserByName settles; the callback runs up to `await bcrypt.compare(...)`,
\* or to the end when there is no such user
LoginUser(r) ==
  /\ running = 0
  /\ req[r].pc = "login_db"
  /\ \E dbError \in BOOLEAN :
       LET user == getUserByName(users, req[r].name)
       IN IF dbError \/ (user.found /\ bcryptRejects(req[r].pass))
          THEN /\ req' = [req EXCEPT ![r] = Hung(@, IF dbError THEN "db" ELSE "bcrypt")]
               /\ running' = 0
          ELSE IF ~user.found
          THEN /\ req' = [req EXCEPT ![r] = respond(build, Snap(@), loginFailed(user, sessions))]
               /\ running' = r
          ELSE /\ req' = [req EXCEPT ![r] = [@ EXCEPT !.pc = "login_cmp", !.user = user]]
               /\ running' = 0
  /\ UNCHANGED <<build, sessions, users, issued, registered>>

\* bcrypt.compare settles; the callback resolves render's promise
LoginCompare(r) ==
  /\ running = 0
  /\ req[r].pc = "login_cmp"
  /\ IF bcryptCompare(req[r].pass, req[r].user.password)
     THEN LET out == createSession(req[r].name, sessions, issued, "Login successful")
          IN /\ req' = [req EXCEPT ![r] = respond(build, Snap(@), out)]
             /\ sessions' = out.sessions
             /\ issued' = out.issued
     ELSE /\ req' = [req EXCEPT ![r] = respond(build, Snap(@), loginFailed(req[r].user, sessions))]
          /\ UNCHANGED <<sessions, issued>>
  /\ running' = r
  /\ UNCHANGED <<build, users, registered>>

(***************************************************************************)
(* pages/register.js, POST.                                                *)
(***************************************************************************)
\* the "end" callback up to `await bcrypt.hash(pass, 10)`
RegisterEnd(r) ==
  /\ running = 0
  /\ req[r].pc = "body"
  /\ req[r].module = slice1(Register)
  /\ \E params \in Bodies :
       req' = [req EXCEPT ![r] =
                 IF bcryptRejects(params[2]) THEN Hung(@, "bcrypt")
                 ELSE [@ EXCEPT !.pc = "reg_hash", !.name = params[1], !.pass = params[2]]]
  /\ UNCHANGED <<build, sessions, users, issued, registered, running>>

\* bcrypt.hash settles; the callback runs up to `await createUser(name, hash)`
RegisterHash(r) ==
  /\ running = 0
  /\ req[r].pc = "reg_hash"
  /\ req' = [req EXCEPT ![r] = [@ EXCEPT !.pc = "reg_db", !.hash = bcryptHash(req[r].pass)]]
  /\ UNCHANGED <<build, sessions, users, issued, registered, running>>

\* createUser settles (the INSERT ran); the callback resolves render's promise
RegisterCreate(r) ==
  /\ running = 0
  /\ req[r].pc = "reg_db"
  /\ \E dbError \in BOOLEAN :
       IF dbError
       THEN /\ req' = [req EXCEPT ![r] =
                         respond(build, [Snap(@) EXCEPT !.err = "db"],
                                 Rendered(Html("Server error"), NoSetCookie, sessions))]
            /\ UNCHANGED <<sessions, users, issued, registered>>
       ELSE IF nameTaken(users, req[r].name)
       THEN /\ req' = [req EXCEPT ![r] =
                         respond(build, Snap(@),
                                 Rendered(Html("Username already taken"), NoSetCookie, sessions))]
            /\ UNCHANGED <<sessions, users, issued, registered>>
       ELSE LET out == createSession(req[r].name, sessions, issued, "Registration successful")
            IN /\ users' = insertUser(users, req[r].name, req[r].hash)
               /\ req' = [req EXCEPT ![r] = respond(build, Snap(@), out)]
               /\ sessions' = out.sessions
               /\ issued' = out.issued
               /\ registered' = registered \cup {<<req[r].name, req[r].pass>>}
  /\ running' = r
  /\ UNCHANGED build

\* the exchange is over: the connection takes the next request
Close(r) ==
  /\ running = r
  /\ req[r].pc = "sent"
  /\ req' = [req EXCEPT ![r] = Idle]
  /\ running' = 0
  /\ UNCHANGED <<build, sessions, users, issued, registered>>

\* the client gives up on a request that never gets a response
Abandon(r) ==
  /\ running = 0
  /\ req[r].pc = "hung"
  /\ req' = [req EXCEPT ![r] = Idle]
  /\ UNCHANGED <<build, sessions, users, issued, registered, running>>

Next ==
  \E r \in ReqIds :
    \/ Request(r)
    \/ LoginEnd(r)
    \/ LoginUser(r)
    \/ LoginCompare(r)
    \/ RegisterEnd(r)
    \/ RegisterHash(r)
    \/ RegisterCreate(r)
    \/ Close(r)
    \/ Abandon(r)

Spec == Init /\ [][Next]_vars

(***************************************************************************)
(* Vocabulary of the properties.                                           *)
(***************************************************************************)
Sent(r) == req[r].pc = "sent"

\* the response to a request that the page handler of `path` answered
SentBy(r, path) == Sent(r) /\ req[r].path = path /\ req[r].status = 200

SentPost(r, path) == SentBy(r, path) /\ req[r].method = "POST"

\* the registry differs from its value before the callback in one new entry
OneNewEntry(before, after, token, name) ==
  /\ token \notin DOMAIN before
  /\ DOMAIN after = DOMAIN before \cup {token}
  /\ after[token] = name
  /\ \A t \in DOMAIN before : after[t] = before[t]

\* this step is the logout page handling a request that carries cookie t
LogoutCarrying(t) ==
  \E r \in ReqIds :
    /\ req[r].pc = "idle"
    /\ req'[r].pc = "sent"
    /\ req'[r].path = Logout
    /\ req'[r].cookie = t

\* this step answers a login or registration with a session cookie for t,
\* bound to the name the request submitted
IssuedNow(t) ==
  \E r \in ReqIds :
    /\ req'[r].pc = "sent"
    /\ req'[r].path \in {Login, Register}
    /\ req'[r].setCookie = SessionCookie(t)
    /\ sessions'[t] = req'[r].name

C2_AnonymousProfile ==
  \A r \in ReqIds :
    (SentBy(r, Profile) /\ req[r].cookie \notin DOMAIN sessions) =>
      /\ req[r].body = Html("Please log in")
      /\ req[r].nav = Html("Login | Register")

(***************************************************************************)
(* C3.  When the session a request carries is bound to a name with an HTML *)
(* metacharacter, the text the response embeds for the user (the profile   *)
(* greeting, the navigation's "Logged in as") has no raw <, >, " or ', and *)
(* every & in it starts one of the five entities.  The responses are the   *)
(* pages a handler rendered; a static file embeds no user.                 *)
(***************************************************************************)
Metacharacters == {"&", "<", ">", "\"", "'"}

Entities ==
  { <<"&", "a", "m", "p", ";">>, <<"&", "l", "t", ";">>, <<"&", "g", "t", ";">>,
    <<"&", "q", "u", "o", "t", ";">>, <<"&", "#", "0", "3", "9", ";">> }

HasMetacharacter(text) == \E i \in 1..Len(text) : text[i] \in Metacharacters

IsEscaped(text) ==
  \A i \in 1..Len(text) :
    /\ text[i] \notin Metacharacters \ {"&"}
    /\ text[i] = "&" =>
         \E e \in Entities :
           i + Len(e) - 1 <= Len(text) /\ SubSeq(text, i, i + Len(e) - 1) = e

C3_EscapedUserName ==
  \A r \in ReqIds :
    ( /\ Sent(r)
      /\ req[r].module # NoModule
      /\ req[r].cookie \in DOMAIN sessions
      /\ sessions[req[r].cookie].t = "string"
      /\ HasMetacharacter(sessions[req[r].cookie].v) ) =>
      /\ req[r].nav.kind = "Logged in as" /\ IsEscaped(req[r].nav.text)
      /\ req[r].path = Profile =>
           req[r].body.kind = "Welcome" /\ IsEscaped(req[r].body.text)

(***************************************************************************)
(* C4.  A POST /login is answered with the success message, one new        *)
(* registry entry bound to the submitted name and the cookie for it        *)
(* exactly when the table holds a row for the submitted name whose hash    *)
(* derives from the submitted password; otherwise the registry is          *)
(* unchanged, no cookie is set and the body is "Login failed".  The table  *)
(* is unchanged either way.                                                *)
(***************************************************************************)
\* the table held a row for the name and the password verifies against it
Verifies(table, name, pass) ==
  /\ name.t = "string"
  /\ pass.t = "string"
  /\ \E row \in table : row.name = name /\ row.password.v = pass.v

C4_LoginIffVerified ==
  \A r \in ReqIds :
    SentPost(r, Login) =>
      /\ users = req[r].users0
      /\ IF Verifies(req[r].users0, req[r].name, req[r].pass)
         THEN /\ req[r].body = Html("Login successful")
              /\ req[r].setCookie.kind = SessionCookie("").kind
              /\ OneNewEntry(req[r].sessions0, sessions, req[r].setCookie.token, req[r].name)
         ELSE /\ req[r].body = Html("Login failed")
              /\ req[r].setCookie = NoSetCookie
              /\ sessions = req[r].sessions0

\* a login that succeeded while another session was already live
C4_Witness ==
  \E r \in ReqIds :
    /\ SentPost(r, Login)
    /\ req[r].body = Html("Login successful")
    /\ req[r].sessions0 # <<>>

(***************************************************************************)
(* C5.  The response to a failed POST /login is the same whether the user  *)
(* is absent or the password does not verify: status 200, text/html, no    *)
(* Set-Cookie, the body "Login failed", the layout the request's cookie    *)
(* gives, and an unchanged registry.                                       *)
(***************************************************************************)
Response(q) == <<q.status, q.contentType, q.setCookie, q.title, q.nav, q.body>>

\* the failure response, computed from the request's cookie and the registry
\* alone
FailureResponse(q) ==
  LET body == Html("Login failed")
      title == <<"L", "o", "g", "i", "n">>
      doc == IF build = "allowlist" THEN wrap(body, title, q.cookie, q.sessions0)
             ELSE wrapUnescaped(body, title, q.cookie, q.sessions0)
  IN <<200, "text/html", NoSetCookie, doc.title, doc.nav, body>>

UserAbsent(q) == ~q.user.found
PasswordMismatch(q) == q.user.found /\ q.user.password.v # q.pass.v

C5_FailureIndistinguishable ==
  \A r \in ReqIds :
    (SentPost(r, Login) /\ (UserAbsent(req[r]) \/ PasswordMismatch(req[r]))) =>
      /\ Response(req[r]) = FailureResponse(req[r])
      /\ sessions = req[r].sessions0

\* a login that failed on the password, not on the name
C5_Witness ==
  \E r \in ReqIds :
    /\ SentPost(r, Login)
    /\ PasswordMismatch(req[r])
    /\ req[r].body = Html("Login failed")

(***************************************************************************)
(* C6.  Once a registration of name n with password p succeeded, every     *)
(* later POST /login with (n, p) that is answered, whatever was requested   *)
(* in between, is answered with the success message, one new registry      *)
(* entry bound to n and the session cookie carrying the new token.         *)
(***************************************************************************)
C6_RegisterThenLogin ==
  \A r \in ReqIds :
    ( /\ SentPost(r, Login)
      /\ req[r].name.t = "string"
      /\ <<req[r].name, req[r].pass>> \in registered ) =>
      /\ req[r].body = Html("Login successful")
      /\ req[r].setCookie = SessionCookie(req[r].setCookie.token)
      /\ req[r].setCookie.token \in Tokens
      /\ OneNewEntry(req[r].sessions0, sessions, req[r].setCookie.token, req[r].name)

\* a login with registered credentials after the session the registration
\* created was logged out
C6_Witness ==
  \E r \in ReqIds :
    /\ SentPost(r, Login)
    /\ <<req[r].name, req[r].pass>> \in registered
    /\ req[r].body = Html("Login successful")
    /\ req[r].sessions0 = <<>>

(***************************************************************************)
(* C7.  A POST /register that submits a name which already has a row, the  *)
(* store raising no other error, is answered "Username already taken"; the *)
(* table is unchanged (no second row, the stored hash not overwritten),    *)
(* the registry is unchanged and no Set-Cookie is set.                     *)
(***************************************************************************)
C7_DuplicateRegistration ==
  \A r \in ReqIds :
    ( /\ SentPost(r, Register)
      /\ req[r].err = ""
      /\ req[r].name.t = "string"
      /\ \E row \in req[r].users0 : row.name = req[r].name ) =>
      /\ req[r].body = Html("Username already taken")
      /\ users = req[r].users0
      /\ sessions = req[r].sessions0
      /\ req[r].setCookie = NoSetCookie

\* a registration of a taken name with another password than the stored one
C7_Witness ==
  \E r \in ReqIds :
    /\ SentPost(r, Register)
    /\ req[r].body = Html("Username already taken")
    /\ \E row \in users : row.name = req[r].name /\ row.password # bcryptHash(req[r].pass)

(***************************************************************************)
(* C8.  A GET /profile carrying a token that is bound in the registry to a *)
(* name (any string the store accepted, the empty string included) gets    *)
(* the welcome greeting for that name, not the log-in prompt, and the      *)
(* navigation shows "Logged in as".                                        *)
(***************************************************************************)
C8_ProfileGreeting ==
  \A r \in ReqIds :
    ( /\ SentBy(r, Profile)
      /\ req[r].cookie \in DOMAIN sessions
      /\ sessions[req[r].cookie].t = "string" ) =>
      /\ req[r].body.kind = "Welcome"
      /\ req[r].body.text \in {sessions[req[r].cookie].v, escapeHtml(sessions[req[r].cookie])}
      /\ req[r].nav.kind = "Logged in as"

(***************************************************************************)
(* C9.  Logout is idempotent.  Every GET /logout is answered in the        *)
(* callback that received it, with status 200, the confirmation body and   *)
(* the Set-Cookie that clears the session cookie; it removes the entry of  *)
(* the token it carries and nothing else, so a logout whose token is not   *)
(* bound (deleted before, never issued, no cookie) leaves the registry as  *)
(* it was; and in every state, for every cookie, logging out twice yields  *)
(* the response and the registry of logging out once.                      *)
(***************************************************************************)
C9_LogoutIdempotent ==
  /\ \A r \in ReqIds :
       req[r].path = Logout =>
         /\ Sent(r)
         /\ req[r].status = 200
         /\ req[r].body = Html("You have been logged out")
         /\ req[r].setCookie = ClearCookie
         /\ DOMAIN sessions = DOMAIN req[r].sessions0 \ {req[r].cookie}
         /\ \A t \in DOMAIN sessions : sessions[t] = req[r].sessions0[t]
         /\ req[r].cookie \notin DOMAIN req[r].sessions0 => sessions = req[r].sessions0
  /\ \A cookie \in Cookies(issued) :
       LET once == logoutRender(cookie, sessions)
           twice == logoutRender(cookie, once.sessions)
       IN twice = once

\* a second logout with a token the first one removed, while another session
\* is live
C9_Witness ==
  \E r \in ReqIds :
    /\ SentBy(r, Logout)
    /\ req[r].cookie \in issued
    /\ req[r].cookie \notin DOMAIN req[r].sessions0
    /\ req[r].sessions0 # <<>>

(***************************************************************************)
(* C10.  A page handler is loaded and invoked exactly for the paths "/",   *)
(* "/login", "/register", "/profile" and "/logout"; every other path that  *)
(* does not start with "/public/" gets 404 "Page not found", with no       *)
(* handler invoked, the registry unchanged and no Set-Cookie.              *)
(***************************************************************************)
AllowedPaths == {Root, Login, Register, Profile, Logout}

C10_AllowListRouting ==
  \A r \in ReqIds :
    /\ req[r].module # NoModule => req[r].path \in AllowedPaths
    /\ (Sent(r) /\ ~startsWith(req[r].path, Public)) =>
         IF req[r].path \in AllowedPaths
         THEN req[r].module # NoModule /\ req[r].status = 200
         ELSE /\ req[r].module = NoModule
              /\ req[r].status = 404
              /\ req[r].body = Html("Page not found")
              /\ req[r].setCookie = NoSetCookie
              /\ sessions = req[r].sessions0

(***************************************************************************)
(* C11.  Every failure met while a routed request is handled is recovered: *)
(* a request in whose handling an error was raised is answered, with 404   *)
(* "Page not found" or with the handler's generic message, and a request   *)
(* whose route does not resolve is answered 404 "Page not found"; no       *)
(* request is left with a rejection that nothing handles.                  *)
(***************************************************************************)
C11_FailuresRecovered ==
  \A r \in ReqIds :
    /\ req[r].pc # "hung"
    /\ req[r].err # "" =>
         /\ Sent(r)
         /\ \/ req[r].status = 404 /\ req[r].body = Html("Page not found")
            \/ req[r].status = 200 /\ req[r].body = Html("Server error")
    /\ (Sent(r) /\ req[r].module = NoModule /\ ~startsWith(req[r].path, Public)) =>
         req[r].status = 404 /\ req[r].body = Html("Page not found")

(***************************************************************************)
(* Scheduling.  The event loop runs every callback that is ready: the      *)
(* body's "end" event, the completion of a store query, of a hash and of a *)
(* compare are each delivered, and a written response is flushed.  A       *)
(* callback waits while another one runs, so the fairness is strong.  A    *)
(* request waits for one completion at a time: Completion(r) is the one    *)
(* that request r waits for.                                               *)
(***************************************************************************)
Completion(r) ==
  \/ LoginEnd(r)
  \/ LoginUser(r)
  \/ LoginCompare(r)
  \/ RegisterEnd(r)
  \/ RegisterHash(r)
  \/ RegisterCreate(r)
  \/ Close(r)

Fairness == \A r \in ReqIds : SF_vars(Completion(r))

FairSpec == Init /\ [][Next]_vars /\ Fairness

(***************************************************************************)
(* C12.  Under fair scheduling of the I/O completions, every request the   *)
(* dispatcher received and that waits for its body is eventually answered, *)
(* also when the store or bcrypt fails on it.                              *)
(***************************************************************************)
C12_EventuallyAnswered ==
  \A r \in ReqIds : (req[r].pc = "body") ~> Sent(r)

(***************************************************************************)
(* C13.  A POST /login or POST /register during which the store raised an  *)
(* unexpected error is answered with the generic "Server error" message:   *)
(* no session is created, no Set-Cookie is set and the table is unchanged. *)
(***************************************************************************)
C13_StoreErrorCaught ==
  \A r \in ReqIds :
    (req[r].err = "db" /\ req[r].path \in {Login, Register}) =>
      /\ Sent(r)
      /\ req[r].status = 200
      /\ req[r].body = Html("Server error")
      /\ req[r].setCookie = NoSetCookie
      /\ sessions = req[r].sessions0
      /\ users = req[r].users0

(***************************************************************************)
(* C14.  A POST /login or POST /register whose body lacks the name or the  *)
(* password is handled as a request with empty parameters: hashing or      *)
(* verifying the absent password raises no fault that leaves the request   *)
(* unanswered, and the answer to a request without a name creates no       *)
(* session and sets no cookie.                                             *)
(***************************************************************************)
C14_MissingFields ==
  \A r \in ReqIds :
    /\ ~(req[r].pc = "hung" /\ req[r].err = "bcrypt")
    /\ ( /\ Sent(r)
         /\ req[r].method = "POST"
         /\ req[r].path \in {Login, Register}
         /\ req[r].name.t = "null" ) =>
         /\ req[r].setCookie = NoSetCookie
         /\ sessions = req[r].sessions0

(***************************************************************************)
(* C15.  A response carries the session cookie with a non-empty token      *)
(* exactly when it answers a successful login or a successful              *)
(* registration; when it is sent the token is bound in the registry to the *)
(* submitted name, so that a later profile request carrying the token, no  *)
(* logout of it in between, never finds it absent; and a response carries  *)
(* the clearing cookie exactly when it answers a logout.                   *)
(***************************************************************************)
\* the answered request was a login that verified
LoginOk(q) ==
  /\ q.method = "POST"
  /\ q.path = Login
  /\ Verifies(q.users0, q.name, q.pass)

\* the answered request was a registration whose INSERT succeeded
RegisterOk(q) ==
  /\ q.method = "POST"
  /\ q.path = Register
  /\ q.err = ""
  /\ ~(q.name.t = "string" /\ \E row \in q.users0 : row.name = q.name)

HasSessionCookie(q) == q.setCookie.kind = SessionCookie("").kind

C15_CookieAndRegistry ==
  \A r \in ReqIds :
    Sent(r) =>
      /\ HasSessionCookie(req[r]) <=> (LoginOk(req[r]) \/ RegisterOk(req[r]))
      /\ HasSessionCookie(req[r]) =>
           /\ req[r].setCookie.token \in Tokens
           /\ req[r].setCookie.token \in DOMAIN sessions
           /\ sessions[req[r].setCookie.token] = req[r].name

C15_ClearingCookie ==
  \A r \in ReqIds :
    Sent(r) => (req[r].setCookie = ClearCookie <=> req[r].path = Logout)

\* a profile request that carries an issued token no logout removed
FollowUp(q) ==
  /\ q.pc = "sent"
  /\ q.path = Profile
  /\ q.cookie \in issued
  /\ q.cookie \in DOMAIN q.sessions0

C15_SessionCookie ==
  /\ C15_CookieAndRegistry
  /\ C15_ClearingCookie
  /\ \A r \in ReqIds :
       FollowUp(req[r]) =>
         req[r].body.kind = "Welcome" /\ req[r].nav.kind = "Logged in as"

(***************************************************************************)
(* C16.  A request whose path starts with "/public/" is answered 200 with  *)
(* the file and the content type of its extension when the file exists and *)
(* 404 when it does not; no page handler is invoked, the layout is not     *)
(* applied and the registry is unchanged.                                  *)
(***************************************************************************)
C16_StaticFrame ==
  \A r \in ReqIds :
    (Sent(r) /\ startsWith(req[r].path, Public)) =>
      /\ req[r].status = (IF existsSync(req[r].path) THEN 200 ELSE 404)
      /\ existsSync(req[r].path) => req[r].body = Html("file")
      /\ req[r].module = NoModule
      /\ req[r].nav = NoHtml
      /\ req[r].title = <<>>
      /\ req[r].setCookie = NoSetCookie
      /\ sessions = req[r].sessions0

C16_StaticFiles ==
  /\ C16_StaticFrame
  /\ \A r \in ReqIds :
       (Sent(r) /\ startsWith(req[r].path, Public) /\ existsSync(req[r].path)) =>
         req[r].contentType = contentTypeOf(req[r].path)

(***************************************************************************)
(* C17.  The response to a request for one of the five routes whose        *)
(* handler completed is status 200, text/html and the document the layout  *)
(* makes of the handler's body, a failed login and a taken username        *)
(* included; the layout runs after the handler, so it reads the registry   *)
(* the handler left; and a response, once written, is not written again.   *)
(***************************************************************************)
\* app.wrap of this build
Layout(body, title, cookie, s) ==
  IF build = "allowlist" THEN wrap(body, title, cookie, s)
  ELSE wrapUnescaped(body, title, cookie, s)

C17_Wrapped ==
  \A r \in ReqIds :
    (Sent(r) /\ req[r].path \in AllowedPaths) =>
      /\ req[r].status = 200
      /\ req[r].contentType = "text/html"
      /\ req[r].body.kind # "none"
      /\ [title |-> req[r].title, nav |-> req[r].nav, body |-> req[r].body]
           = Layout(req[r].body, metaTitle(req[r].module), req[r].cookie, sessions)

C17_WrittenOnce ==
  \A r \in ReqIds : Sent(r) => (req'[r] = req[r] \/ req'[r] = Idle)

C17_RenderWrapRespond == []C17_Wrapped /\ [][C17_WrittenOnce]_vars

\* a logout carrying a live token: the layout, run after the handler, shows
\* the anonymous navigation
C17_Witness ==
  \E r \in ReqIds :
    /\ SentBy(r, Logout)
    /\ req[r].cookie \in DOMAIN req[r].sessions0
    /\ Truthy(req[r].sessions0[req[r].cookie])
    /\ req[r].nav = Html("Login | Register")
    /\ req[r].contentType = "text/html"

(***************************************************************************)
(* C18.  The layout, the home page, the profile page and the forms of      *)
(* GET /login and GET /register leave the registry and the table as they   *)
(* were; the registry changes only in the step that answers a successful   *)
(* POST /login or POST /register, by the one entry for the new token, or   *)
(* that answers a logout, by the removal of the entry of its cookie; the   *)
(* table changes only in the step that answers a successful registration.  *)
(***************************************************************************)
ReadOnlyPage(q) ==
  \/ q.module \in {<<"i", "n", "d", "e", "x">>, slice1(Profile)}
  \/ q.module \in {slice1(Login), slice1(Register)} /\ q.method = "GET"

C18_ReadOnlyPages ==
  \A r \in ReqIds :
    (Sent(r) /\ ReadOnlyPage(req[r])) =>
      sessions = req[r].sessions0 /\ users = req[r].users0

\* this step answers request r
Answers(r) == req[r].pc # "sent" /\ req'[r].pc = "sent"

C18_OnlyWriters ==
  /\ sessions' # sessions =>
       \E r \in ReqIds :
         /\ Answers(r)
         /\ \/ /\ LoginOk(req'[r]) \/ RegisterOk(req'[r])
               /\ OneNewEntry(sessions, sessions', req'[r].setCookie.token, req'[r].name)
            \/ /\ req'[r].path = Logout
               /\ DOMAIN sessions' = DOMAIN sessions \ {req'[r].cookie}
               /\ \A t \in DOMAIN sessions' : sessions'[t] = sessions[t]
  /\ users' # users =>
       \E r \in ReqIds : Answers(r) /\ RegisterOk(req'[r])

C18_Frame == []C18_ReadOnlyPages /\ [][C18_OnlyWriters]_vars

\* a profile page rendered for a live session while the table has a row
C18_Witness ==
  \E r \in ReqIds :
    /\ SentBy(r, Profile)
    /\ req[r].body.kind = "Welcome"
    /\ req[r].cookie \in DOMAIN sessions
    /\ users # {}

(***************************************************************************)
(* C19.  Every session creation binds a token that is not in the registry  *)
(* and was never issued before: the step that answers with a session       *)
(* cookie leaves every existing binding as it was, and every key of the    *)
(* registry is a token that was issued.                                    *)
(***************************************************************************)
C19_IssuedKeys == DOMAIN sessions \subseteq issued

C19_Creation ==
  \A r \in ReqIds :
    (Answers(r) /\ HasSessionCookie(req'[r])) =>
      LET token == req'[r].setCookie.token
      IN /\ token \notin DOMAIN sessions
         /\ token \notin issued
         /\ issued' = issued \cup {token}
         /\ token \in DOMAIN sessions'
         /\ \A t \in DOMAIN sessions : t \in DOMAIN sessions' /\ sessions'[t] = sessions[t]

Applied(q, s) ==
  IF HasSessionCookie(q) THEN sessionsSet(s, q.setCookie.token, q.name)
  ELSE IF q.path = Logout THEN sessionsDelete(s, q.cookie)
  ELSE s

C20_OneOperation ==
  \/ sessions' = sessions /\ \A r \in ReqIds : Answers(r) => Applied(req'[r], sessions) = sessions
  \/ \E r \in ReqIds :
       /\ Answers(r)
       /\ \A q \in ReqIds \ {r} : req'[q] = req[q]
       /\ sessions' = Applied(req'[r], sessions)

C20_WholeLookup ==
  \A r \in ReqIds :
    SentBy(r, Profile) =>
      req[r].body = (IF build = "allowlist" THEN profileRender(req[r].cookie, sessions)
                     ELSE profileRenderUnescaped(req[r].cookie, sessions))

C20_AtomicRegistry == []C20_WholeLookup /\ [][C20_OneOperation]_vars

\* a logout removes a live entry while a login is suspended at bcrypt.compare
C20_Witness ==
  \E r, q \in ReqIds :
    /\ SentBy(r, Logout)
    /\ req[r].cookie \in DOMAIN req[r].sessions0
    /\ req[q].pc = "login_cmp"

(***************************************************************************)
(* C21.  When registrations of one name are in flight together, each       *)
(* having hashed before any inserted, one of them is answered with the     *)
(* success message, a session and a cookie, and every other one with       *)
(* "Username already taken", no session and no cookie; the table holds one *)
(* row for the name, with the hash of the one that succeeded.              *)
(***************************************************************************)
RowsOf(table, name) == {row \in table : row.name = name}

C21_ConcurrentRegistration ==
  /\ \A row \in users : row.name.t = "string" => Cardinality(RowsOf(users, row.name)) = 1
  /\ \A r \in ReqIds :
       (SentPost(r, Register) /\ req[r].err = "" /\ req[r].name.t = "string") =>
         IF RowsOf(req[r].users0, req[r].name) = {}
         THEN /\ req[r].body = Html("Registration successful")
              /\ HasSessionCookie(req[r])
              /\ OneNewEntry(req[r].sessions0, sessions, req[r].setCookie.token, req[r].name)
              /\ RowsOf(users, req[r].name)
                   = {[name |-> req[r].name, password |-> bcryptHash(req[r].pass)]}
         ELSE /\ req[r].body = Html("Username already taken")
              /\ req[r].setCookie = NoSetCookie
              /\ sessions = req[r].sessions0
              /\ users = req[r].users0

\* one registration is answered with success while another one for the same
\* name, with another password, has hashed and waits for its INSERT
C21_Witness ==
  \E r, q \in ReqIds :
    /\ SentPost(r, Register)
    /\ req[r].body = Html("Registration successful")
    /\ req[r].name.t = "string"
    /\ req[q].pc = "reg_db"
    /\ req[q].name = req[r].name
    /\ req[q].hash # bcryptHash(req[r].pass)

(***************************************************************************)
(* C22.  A logout carrying token t leaves every entry other than t's as it *)
(* was, the other sessions of the same user included; a successful login   *)
(* of a user who has live sessions adds its session and leaves those as    *)
(* they were: a user may hold several valid tokens.                        *)
(***************************************************************************)
\* every entry of before other than t's is in after, unchanged
KeepsOthers(before, after, t) ==
  \A k \in DOMAIN before \ {t} : k \in DOMAIN after /\ after[k] = before[k]

C22_OtherSessionsKept ==
  \A r \in ReqIds :
    /\ SentBy(r, Logout) =>
         /\ KeepsOthers(req[r].sessions0, sessions, req[r].cookie)
         /\ DOMAIN sessions \subseteq DOMAIN req[r].sessions0
    /\ (SentPost(r, Login) /\ HasSessionCookie(req[r])) =>
         /\ req[r].setCookie.token \notin DOMAIN req[r].sessions0
         /\ KeepsOthers(req[r].sessions0, sessions, req[r].setCookie.token)
         /\ sessions[req[r].setCookie.token] = req[r].name

\* a logout of one of two live sessions of the same user: the other stays
C22_Witness ==
  \E r \in ReqIds :
    /\ SentBy(r, Logout)
    /\ req[r].cookie \in DOMAIN req[r].sessions0
    /\ \E t \in DOMAIN sessions :
         t # req[r].cookie /\ sessions[t] = req[r].sessions0[req[r].cookie]

\* a login of a user who already has a live session: now two tokens are valid
C22_WitnessLogin ==
  \E r \in ReqIds :
    /\ SentPost(r, Login)
    /\ HasSessionCookie(req[r])
    /\ \E t \in DOMAIN req[r].sessions0 : req[r].sessions0[t] = req[r].name

(***************************************************************************)
(* C23.  In every reachable state each registry entry binds its token to a *)
(* username, and the store holds a credential record under that name: no   *)
(* session exists for a name that was never registered.                    *)
(***************************************************************************)
C23_SessionsOfRegisteredUsers ==
  \A t \in DOMAIN sessions :
    /\ sessions[t].t = "string"
    /\ getUserByName(users, sessions[t]).found

C24_WitnessEmptyName ==
  \E r \in ReqIds :
    /\ SentBy(r, Profile)
    /\ req[r].cookie \in DOMAIN sessions
    /\ sessions[req[r].cookie] = Str(<<>>)
    /\ req[r].body = Html("Please log in")

(***************************************************************************)
(* C25.  The layout reads the registry after the handler changed it and    *)
(* keys on the cookie of the request: the response to a logout carrying a  *)
(* live token shows the anonymous navigation, and the response to a        *)
(* successful login or registration shows the navigation of the cookie the *)
(* request carried, anonymous when that cookie names no live session, not  *)
(* the navigation of the session the response created.                     *)
(***************************************************************************)
Anonymous == Html("Login | Register")

C25_LogoutNavigation ==
  \A r \in ReqIds :
    (SentBy(r, Logout) /\ req[r].cookie \in DOMAIN req[r].sessions0) =>
      req[r].nav = Anonymous

C25_NavigationOfCarriedCookie ==
  /\ C25_LogoutNavigation
  /\ \A r \in ReqIds :
       (Sent(r) /\ HasSessionCookie(req[r])) =>
         IF req[r].cookie \in DOMAIN req[r].sessions0
         THEN req[r].nav =
                Layout(req[r].body, metaTitle(req[r].module), req[r].cookie,
                       req[r].sessions0).nav
         ELSE req[r].nav = Anonymous

====
